---- MODULE Spec2Model ----
(***************************************************************************)
(* Cache lifecycle and metrics analysis of the property listings app.      *)
(*                                                                         *)
(*   properties/utils.py    get_all_properties, get_redis_cache_metrics,   *)
(*                          store_metrics_history                          *)
(*   properties/signals.py  post_save / post_delete invalidation handlers  *)
(*   properties/views.py    property_list (cache_page for 15 minutes)      *)
(*                                                                         *)
(* Time is counted in seconds.  Ratios are counted in hundredths of a      *)
(* percent (9000 is 90.00%), the fragmentation ratio in hundredths.        *)
(***************************************************************************)
EXTENDS Integers, Sequences, FiniteSets, TLC

VARIABLES repo, cache, info, seq, result, calls

vars == <<repo, cache, info, seq, result, calls>>

(***************************************************************************)
(* Bounds of the model.                                                    *)
(***************************************************************************)
MaxId == 2
MaxRev == 1
TickStep == 3599
LongStep == 43200
MaxCollects == 2
MaxRepeat == 2
MaxHits == 1801
MaxMisses == 200

(***************************************************************************)
(* Constants of the program.                                               *)
(***************************************************************************)
PropertiesTTL == 3600
HistoryTTL == 86400
PageTTL == 900
HistoryMax == 100
FragmentationLimit == 150

AllPropertiesKey == <<"all_properties">>
HistoryKey == <<"cache_metrics_history">>
PageKey == <<"views", "decorators", "cache", "cache_page">>
ViewPattern == <<"views", "decorators", "cache">>

Keys == {AllPropertiesKey, HistoryKey, PageKey}

Excellent == "Excellent cache hit ratio! Cache is very effective."
Good == "Good cache hit ratio. Consider fine-tuning cache strategies."
Moderate == "Moderate cache hit ratio. Review cache invalidation and TTL settings."
Low == "Low cache hit ratio. Consider increasing cache duration or reviewing cache keys."
FragmentationWarning == "High memory fragmentation detected. Consider restarting Redis."

\* no call is in progress: every operation runs from start to end in one step
NoCalls == [kind |-> "none"]

(***************************************************************************)
(* The repository: Property rows, by primary key; revision 0 is no row.    *)
(***************************************************************************)
Ids == 1..MaxId
Revs == 1..MaxRev

RECURSIVE Rows(_, _)
Rows(r, n) ==
    IF n = 0 THEN <<>>
    ELSE IF r[n] = 0 THEN Rows(r, n - 1)
         ELSE Append(Rows(r, n - 1), [id |-> n, rev |-> r[n]])

\* Property.objects.all(): every row, in primary key order.
FetchAll(r) == Rows(r, MaxId)

(***************************************************************************)
(* The cache backend: key -> entry.  An entry that has lived for its       *)
(* time-to-live is gone.                                                   *)
(***************************************************************************)
NoEntry == [present |-> FALSE, value |-> <<>>, ttl |-> 0, age |-> 0]

Entry(v, ttl) == [present |-> TRUE, value |-> v, ttl |-> ttl, age |-> 0]

Present(c, k) == c[k].present

\* cache.get(key, default)
CacheGet(c, k, default) == IF c[k].present THEN c[k].value ELSE default

\* cache.set(key, value, timeout)
CacheSet(c, k, v, ttl) == [c EXCEPT ![k] = Entry(v, ttl)]

\* cache.delete(key): deleting an absent key is a no-op
CacheDelete(c, k) == [c EXCEPT ![k] = NoEntry]

\* the glob 'prefix.*' matches the keys that extend the prefix
Matches(k, prefix) ==
    /\ Len(k) > Len(prefix)
    /\ SubSeq(k, 1, Len(prefix)) = prefix

\* cache.delete_pattern(glob)
DeletePattern(c, prefix) ==
    [k \in Keys |-> IF Matches(k, prefix) THEN NoEntry ELSE c[k]]

\* entries after d more seconds
Aged(c, d) ==
    [k \in Keys |->
        IF c[k].present /\ c[k].age + d < c[k].ttl
        THEN [c[k] EXCEPT !.age = c[k].age + d]
        ELSE NoEntry]

(***************************************************************************)
(* signals.py: the two receivers run inside Model.save() / Model.delete(), *)
(* after the row was written.  failing names the backend call that raises  *)
(* during this invocation ("none": the backend serves every call);         *)
(* "delete_pattern" is also the backend that has no delete_pattern at all. *)
(***************************************************************************)
HandlerFaults == {"none", "cache_delete", "delete_pattern"}

\* a handler that refuses an absent key
invalidate_on_save_strict(c, failing) ==
    IF failing = "cache_delete" \/ ~Present(c, AllPropertiesKey)
    THEN [cache |-> c, raised |-> TRUE]
    ELSE IF failing = "delete_pattern"
         THEN [cache |-> CacheDelete(c, AllPropertiesKey), raised |-> TRUE]
         ELSE [cache |-> DeletePattern(CacheDelete(c, AllPropertiesKey), ViewPattern),
               raised |-> FALSE]

invalidate_property_cache_on_save(c, failing) ==
    IF failing = "cache_delete"
    THEN [cache |-> c, raised |-> TRUE]
    ELSE IF failing = "delete_pattern"
         THEN [cache |-> CacheDelete(c, AllPropertiesKey), raised |-> TRUE]
         ELSE [cache |-> DeletePattern(CacheDelete(c, AllPropertiesKey), ViewPattern),
               raised |-> FALSE]

\* a handler that clears the view caches only
invalidate_on_delete_keeping_key(c, failing) ==
    IF failing = "cache_delete"
    THEN [cache |-> c, raised |-> TRUE]
    ELSE IF failing = "delete_pattern"
         THEN [cache |-> c, raised |-> TRUE]
         ELSE [cache |-> DeletePattern(c, ViewPattern), raised |-> FALSE]

invalidate_property_cache_on_delete(c, failing) ==
    IF failing = "cache_delete"
    THEN [cache |-> c, raised |-> TRUE]
    ELSE IF failing = "delete_pattern"
         THEN [cache |-> CacheDelete(c, AllPropertiesKey), raised |-> TRUE]
         ELSE [cache |-> DeletePattern(CacheDelete(c, AllPropertiesKey), ViewPattern),
               raised |-> FALSE]

\* how many times in a row the same event was delivered, counted to MaxRepeat
Run(op, id, rev) ==
    IF result.op = op /\ result.id = id /\ result.rev = rev /\ result.run < MaxRepeat
    THEN result.run + 1
    ELSE IF result.op = op /\ result.id = id /\ result.rev = rev
         THEN MaxRepeat
         ELSE 1

\* a Property is created or updated, post_save fires
Save(id, rev, failing) ==
    LET h == invalidate_property_cache_on_save(cache, failing) IN
    /\ repo' = [repo EXCEPT ![id] = rev]
    /\ cache' = h.cache
    /\ result' = [op |-> "save", id |-> id, rev |-> rev, raised |-> h.raised,
                  error |-> failing, run |-> Run("save", id, rev)]
    /\ UNCHANGED <<info, seq, calls>>

\* a Property is deleted, post_delete fires
Delete(id, failing) ==
    LET h == invalidate_property_cache_on_delete(cache, failing) IN
    /\ repo[id] # 0
    /\ repo' = [repo EXCEPT ![id] = 0]
    /\ cache' = h.cache
    /\ result' = [op |-> "delete", id |-> id, rev |-> 0, raised |-> h.raised,
                  error |-> failing, run |-> Run("delete", id, 0)]
    /\ UNCHANGED <<info, seq, calls>>

(***************************************************************************)
(* utils.py: get_all_properties.  failing names the call that raises if    *)
(* the invocation gets to it.                                              *)
(***************************************************************************)
GetFaults == {"none", "cache_get", "repository", "cache_set"}

\* a hit branch that writes the entry back, renewing its hour
GetHitTouching(c) ==
    [cache |-> CacheSet(c, AllPropertiesKey, CacheGet(c, AllPropertiesKey, <<>>),
                        PropertiesTTL),
     out |-> [op |-> "get", raised |-> FALSE, error |-> "none", hit |-> TRUE,
              fetches |-> 0, value |-> CacheGet(c, AllPropertiesKey, <<>>)]]

\* the hit branch: the cached value is returned as it is
GetHit(c) ==
    [cache |-> c,
     out |-> [op |-> "get", raised |-> FALSE, error |-> "none", hit |-> TRUE,
              fetches |-> 0, value |-> CacheGet(c, AllPropertiesKey, <<>>)]]

\* a miss branch that swallows a repository failure and caches nothing found
GetMissSwallowing(c, r, failing) ==
    IF failing = "repository"
    THEN [cache |-> CacheSet(c, AllPropertiesKey, <<>>, PropertiesTTL),
          out |-> [op |-> "get", raised |-> FALSE, error |-> failing, hit |-> FALSE,
                   fetches |-> 1, value |-> <<>>]]
    ELSE IF failing = "cache_set"
         THEN [cache |-> c,
               out |-> [op |-> "get", raised |-> TRUE, error |-> failing, hit |-> FALSE,
                        fetches |-> 1, value |-> <<>>]]
         ELSE [cache |-> CacheSet(c, AllPropertiesKey, FetchAll(r), PropertiesTTL),
               out |-> [op |-> "get", raised |-> FALSE, error |-> "none", hit |-> FALSE,
                        fetches |-> 1, value |-> FetchAll(r)]]

\* a miss branch that empties the backend before it stores
GetMissClearing(c, r, failing) ==
    IF failing \in {"repository", "cache_set"}
    THEN [cache |-> c,
          out |-> [op |-> "get", raised |-> TRUE, error |-> failing, hit |-> FALSE,
                   fetches |-> 1, value |-> <<>>]]
    ELSE [cache |-> [k \in Keys |-> IF k = AllPropertiesKey
                                    THEN Entry(FetchAll(r), PropertiesTTL)
                                    ELSE NoEntry],
          out |-> [op |-> "get", raised |-> FALSE, error |-> "none", hit |-> FALSE,
                   fetches |-> 1, value |-> FetchAll(r)]]

\* a miss branch that stores for the 15 minutes of the page cache
GetMissShortLived(c, r, failing) ==
    IF failing \in {"repository", "cache_set"}
    THEN [cache |-> c,
          out |-> [op |-> "get", raised |-> TRUE, error |-> failing, hit |-> FALSE,
                   fetches |-> 1, value |-> <<>>]]
    ELSE [cache |-> CacheSet(c, AllPropertiesKey, FetchAll(r), PageTTL),
          out |-> [op |-> "get", raised |-> FALSE, error |-> "none", hit |-> FALSE,
                   fetches |-> 1, value |-> FetchAll(r)]]

\* the miss branch: fetch from the repository, store for an hour
GetMiss(c, r, failing) ==
    IF failing = "repository"
    THEN [cache |-> c,
          out |-> [op |-> "get", raised |-> TRUE, error |-> failing, hit |-> FALSE,
                   fetches |-> 1, value |-> <<>>]]
    ELSE IF failing = "cache_set"
         THEN [cache |-> c,
               out |-> [op |-> "get", raised |-> TRUE, error |-> failing, hit |-> FALSE,
                        fetches |-> 1, value |-> <<>>]]
         ELSE [cache |-> CacheSet(c, AllPropertiesKey, FetchAll(r), PropertiesTTL),
               out |-> [op |-> "get", raised |-> FALSE, error |-> "none", hit |-> FALSE,
                        fetches |-> 1, value |-> FetchAll(r)]]

\* a lookup that takes an empty cached collection for a miss
get_all_properties_falsy(c, r, failing) ==
    IF failing = "cache_get"
    THEN [cache |-> c,
          out |-> [op |-> "get", raised |-> TRUE, error |-> failing, hit |-> FALSE,
                   fetches |-> 0, value |-> <<>>]]
    ELSE IF Present(c, AllPropertiesKey) /\ CacheGet(c, AllPropertiesKey, <<>>) # <<>>
         THEN GetHit(c)
         ELSE GetMiss(c, r, failing)

get_all_properties(c, r, failing) ==
    IF failing = "cache_get"
    THEN [cache |-> c,
          out |-> [op |-> "get", raised |-> TRUE, error |-> failing, hit |-> FALSE,
                   fetches |-> 0, value |-> <<>>]]
    ELSE IF Present(c, AllPropertiesKey)
         THEN GetHit(c)
         ELSE GetMiss(c, r, failing)

GetAllProperties(failing) ==
    LET g == get_all_properties(cache, repo, failing) IN
    /\ cache' = g.cache
    /\ result' = g.out @@ [after |-> result.op]
    /\ UNCHANGED <<repo, info, seq, calls>>

(***************************************************************************)
(* views.py: property_list under cache_page(60 * 15).                      *)
(***************************************************************************)
property_list(c, r) ==
    IF Present(c, PageKey)
    THEN [cache |-> c, page |-> CacheGet(c, PageKey, <<>>)]
    ELSE [cache |-> CacheSet(c, PageKey, FetchAll(r), PageTTL), page |-> FetchAll(r)]

PropertyList ==
    LET v == property_list(cache, repo) IN
    /\ cache' = v.cache
    /\ result' = [op |-> "page", raised |-> FALSE]
    /\ UNCHANGED <<repo, info, seq, calls>>

(***************************************************************************)
(* Time passes.                                                            *)
(***************************************************************************)
Tick(d) ==
    /\ cache' = Aged(cache, d)
    /\ result' = [op |-> "tick", elapsed |-> d]
    /\ UNCHANGED <<repo, info, seq, calls>>

(***************************************************************************)
(* utils.py: get_redis_cache_metrics.                                      *)
(***************************************************************************)

\* round(num / den, 2) in hundredths; num / den is a percentage.  A value
\* that lies exactly between two hundredths goes to either of them: the
\* floating-point quotient is not exact and decides the side.
Round2(num, den) ==
    LET q == (100 * num) \div den
        r == (100 * num) % den
    IN  IF 2 * r < den THEN {q}
        ELSE IF 2 * r > den THEN {q + 1}
             ELSE {q, q + 1}

\* the values round(hit_ratio, 2) can take
HitRatios(hits, misses) ==
    IF hits + misses > 0 THEN Round2(100 * hits, hits + misses) ELSE {0}

\* round(100 - hit_ratio, 2) without the guard on total_requests
MissRatiosUnguarded(hits, misses) ==
    IF hits + misses > 0 THEN Round2(100 * misses, hits + misses) ELSE {10000}

\* the values round(100 - hit_ratio, 2) can take, 0 without requests
MissRatios(hits, misses) ==
    IF hits + misses > 0 THEN Round2(100 * misses, hits + misses) ELSE {0}

\* the chain with >= comparisons
AnalysisInclusive(hits, misses) ==
    LET total_requests == hits + misses
        reaches(limit) == total_requests > 0 /\ 100 * hits >= limit * total_requests
    IN  IF reaches(90) THEN Excellent
        ELSE IF reaches(70) THEN Good
             ELSE IF reaches(50) THEN Moderate
                  ELSE Low

\* the if / elif chain on the hit ratio 100 * hits / total_requests
Analysis(hits, misses) ==
    LET total_requests == hits + misses
        above(limit) == total_requests > 0 /\ 100 * hits > limit * total_requests
    IN  IF above(90) THEN Excellent
        ELSE IF above(70) THEN Good
             ELSE IF above(50) THEN Moderate
                  ELSE Low

\* len(redis_conn.keys('*'))
KeyCount(c) == Cardinality({k \in Keys : Present(c, k)})

\* the metrics dictionary of a successful collection
Metrics(inf, c, now, hit_ratio, miss_ratio) ==
    LET m == [timestamp |-> now,
              cache_stats |-> [hits |-> inf.hits,
                               misses |-> inf.misses,
                               total_requests |-> inf.hits + inf.misses,
                               hit_ratio |-> hit_ratio,
                               miss_ratio |-> miss_ratio],
              memory_stats |-> [mem_fragmentation_ratio |-> inf.fragmentation],
              keyspace_stats |-> [total_keys |-> KeyCount(c)],
              analysis |-> Analysis(inf.hits, inf.misses)]
    IN  IF inf.fragmentation > FragmentationLimit
        THEN [warning |-> FragmentationWarning] @@ m
        ELSE m

\* the dictionary returned by the except branch
ErrorMetrics(now, failing) ==
    [error |-> failing,
     timestamp |-> now,
     cache_stats |-> [hits |-> 0, misses |-> 0, hit_ratio |-> 0]]

\* a cut that starts one entry late
LastEntriesLate(h) ==
    IF Len(h) > HistoryMax + 1 THEN SubSeq(h, Len(h) - HistoryMax + 1, Len(h)) ELSE h

\* history[-100:]
LastEntries(h) ==
    IF Len(h) > HistoryMax THEN SubSeq(h, Len(h) - HistoryMax + 1, Len(h)) ELSE h

StoreFaults == {"none", "cache_get", "cache_set"}

\* a store that puts the new snapshot first
store_metrics_history_prepending(c, metrics, storing) ==
    IF storing # "none"
    THEN c
    ELSE CacheSet(c, HistoryKey,
                  LastEntries(<<metrics>> \o CacheGet(c, HistoryKey, <<>>)),
                  HistoryTTL)

\* store_metrics_history: the cache after the call; a failing cache call
\* is logged and the history stays as it was
store_metrics_history(c, metrics, storing) ==
    IF storing # "none"
    THEN c
    ELSE CacheSet(c, HistoryKey,
                  LastEntries(Append(CacheGet(c, HistoryKey, <<>>), metrics)),
                  HistoryTTL)

MetricsFaults == {"none", "connection", "malformed", "keys"}

\* a collector that stores the error snapshot too
get_redis_cache_metrics_storing_errors(c, inf, now, failing, storing, hit_ratio, miss_ratio) ==
    IF failing # "none"
    THEN [cache |-> store_metrics_history(c, ErrorMetrics(now, failing), storing),
          out |-> [op |-> "metrics", raised |-> FALSE, failing |-> failing,
                   storing |-> "none", value |-> ErrorMetrics(now, failing)]]
    ELSE LET metrics == Metrics(inf, c, now, hit_ratio, miss_ratio) IN
         [cache |-> store_metrics_history(c, metrics, storing),
          out |-> [op |-> "metrics", raised |-> FALSE, failing |-> "none",
                   storing |-> storing, value |-> metrics]]

\* a collector whose history store is not guarded: its failure ends in the
\* except branch
get_redis_cache_metrics_unguarded_store(c, inf, now, failing, storing, hit_ratio, miss_ratio) ==
    IF failing # "none"
    THEN [cache |-> c,
          out |-> [op |-> "metrics", raised |-> FALSE, failing |-> failing,
                   storing |-> "none", value |-> ErrorMetrics(now, failing)]]
    ELSE IF storing # "none"
         THEN [cache |-> c,
               out |-> [op |-> "metrics", raised |-> FALSE, failing |-> "none",
                        storing |-> storing, value |-> ErrorMetrics(now, storing)]]
         ELSE LET metrics == Metrics(inf, c, now, hit_ratio, miss_ratio) IN
              [cache |-> store_metrics_history(c, metrics, storing),
               out |-> [op |-> "metrics", raised |-> FALSE, failing |-> "none",
                        storing |-> storing, value |-> metrics]]

get_redis_cache_metrics(c, inf, now, failing, storing, hit_ratio, miss_ratio) ==
    IF failing # "none"
    THEN [cache |-> c,
          out |-> [op |-> "metrics", raised |-> FALSE, failing |-> failing,
                   storing |-> "none", value |-> ErrorMetrics(now, failing)]]
    ELSE LET metrics == Metrics(inf, c, now, hit_ratio, miss_ratio) IN
         [cache |-> store_metrics_history(c, metrics, storing),
          out |-> [op |-> "metrics", raised |-> FALSE, failing |-> "none",
                   storing |-> storing, value |-> metrics]]

CollectMetrics(failing, storing) ==
    /\ seq < MaxCollects
    /\ \E hit_ratio \in HitRatios(info.hits, info.misses),
          miss_ratio \in MissRatios(info.hits, info.misses) :
          LET g == get_redis_cache_metrics(cache, info, seq + 1, failing, storing,
                                           hit_ratio, miss_ratio)
          IN  /\ cache' = g.cache
              /\ result' = g.out
    /\ seq' = seq + 1
    /\ UNCHANGED <<repo, info, calls>>

(***************************************************************************)
(* utils.py: get_cache_effectiveness_report.                               *)
(***************************************************************************)
ReportFaults == {"none", "cache_get"}

\* a trend against the entry before the newest one
TrendFromPrevious(history, metrics) ==
    IF Len(history) >= 2
    THEN LET old_ratio == history[Len(history) - 1].cache_stats.hit_ratio
             new_ratio == metrics.cache_stats.hit_ratio
         IN  [trend |-> IF new_ratio > old_ratio THEN "improving" ELSE "declining",
              old_ratio |-> old_ratio,
              new_ratio |-> new_ratio]
    ELSE [trend |-> "none"]

\* the trend section: the oldest entry of the history against the snapshot
\* just collected
Trend(history, metrics) ==
    IF Len(history) >= 2
    THEN LET old_ratio == history[1].cache_stats.hit_ratio
             new_ratio == metrics.cache_stats.hit_ratio
         IN  [trend |-> IF new_ratio > old_ratio THEN "improving" ELSE "declining",
              old_ratio |-> old_ratio,
              new_ratio |-> new_ratio]
    ELSE [trend |-> "none"]

\* a report that loads the history before it looks at the snapshot
report_reading_first(c, inf, now, failing, storing, reading, hit_ratio, miss_ratio) ==
    LET g == get_redis_cache_metrics(c, inf, now, failing, storing, hit_ratio, miss_ratio)
        metrics == g.out.value
    IN  IF reading # "none"
        THEN [cache |-> g.cache,
              out |-> [op |-> "report", raised |-> TRUE, failing |-> failing,
                       storing |-> storing, read |-> TRUE, value |-> metrics,
                       text |-> [kind |-> "none"]]]
        ELSE IF "error" \in DOMAIN metrics
             THEN [cache |-> g.cache,
                   out |-> [op |-> "report", raised |-> FALSE, failing |-> failing,
                            storing |-> "none", read |-> TRUE, value |-> metrics,
                            text |-> [kind |-> "error", message |-> metrics.error]]]
             ELSE [cache |-> g.cache,
                   out |-> [op |-> "report", raised |-> FALSE, failing |-> "none",
                            storing |-> storing, read |-> TRUE, value |-> metrics,
                            text |-> [kind |-> "report",
                                      metrics |-> metrics,
                                      trend |-> Trend(CacheGet(g.cache, HistoryKey, <<>>),
                                                      metrics)]]]

\* reading names the failure of the report's own cache.get of the history
get_cache_effectiveness_report(c, inf, now, failing, storing, reading, hit_ratio, miss_ratio) ==
    LET g == get_redis_cache_metrics(c, inf, now, failing, storing, hit_ratio, miss_ratio)
        metrics == g.out.value
    IN  IF "error" \in DOMAIN metrics
        THEN [cache |-> g.cache,
              out |-> [op |-> "report", raised |-> FALSE, failing |-> failing,
                       storing |-> "none", read |-> FALSE, value |-> metrics,
                       text |-> [kind |-> "error", message |-> metrics.error]]]
        ELSE IF reading # "none"
             THEN [cache |-> g.cache,
                   out |-> [op |-> "report", raised |-> TRUE, failing |-> "none",
                            storing |-> storing, read |-> TRUE, value |-> metrics,
                            text |-> [kind |-> "none"]]]
             ELSE [cache |-> g.cache,
                   out |-> [op |-> "report", raised |-> FALSE, failing |-> "none",
                            storing |-> storing, read |-> TRUE, value |-> metrics,
                            text |-> [kind |-> "report",
                                      metrics |-> metrics,
                                      trend |-> Trend(CacheGet(g.cache, HistoryKey, <<>>),
                                                      metrics)]]]

Report(failing, storing, reading) ==
    /\ seq < MaxCollects
    /\ \E hit_ratio \in HitRatios(info.hits, info.misses),
          miss_ratio \in MissRatios(info.hits, info.misses) :
          LET g == get_cache_effectiveness_report(cache, info, seq + 1, failing, storing,
                                                  reading, hit_ratio, miss_ratio)
          IN  /\ cache' = g.cache
              /\ result' = g.out
    /\ seq' = seq + 1
    /\ UNCHANGED <<repo, info, calls>>

(***************************************************************************)
(* The backend's counters, as reported by INFO.                            *)
(***************************************************************************)
Info(hits, misses, fragmentation) ==
    [hits |-> hits, misses |-> misses, fragmentation |-> fragmentation]

InfoSamples ==
    {Info(0, 0, 100), Info(9, 1, 150), Info(23, 137, 151), Info(1, 1, 100)}

\* other clients use the backend
RedisActivity ==
    /\ info' \in InfoSamples \ {info}
    /\ result' = [op |-> "activity"]
    /\ UNCHANGED <<repo, cache, seq, calls>>

(***************************************************************************)
(* Histories left in the backend by earlier collections.                   *)
(***************************************************************************)
EarlierMetrics(now) ==
    Metrics(Info(9, 1, 150), [k \in Keys |-> NoEntry], now, 9000, 1000)

Earlier(n) == [i \in 1..n |-> EarlierMetrics(i - n)]

EmptyCache == [k \in Keys |-> NoEntry]

\* the listing path on an empty backend and an empty repository
Init ==
    /\ repo = [i \in Ids |-> 0]
    /\ cache = EmptyCache
    /\ info = Info(0, 0, 100)
    /\ seq = 0
    /\ result = [op |-> "none"]
    /\ calls = NoCalls

Next ==
    \/ \E id \in Ids, rev \in Revs, failing \in HandlerFaults : Save(id, rev, failing)
    \/ \E id \in Ids, failing \in HandlerFaults : Delete(id, failing)
    \/ \E failing \in GetFaults : GetAllProperties(failing)
    \/ PropertyList
    \/ Tick(TickStep)

Spec == Init /\ [][Next]_vars

\* the metrics path, on a backend that holds no history or the history of
\* HistoryMax - 1 earlier collections
InitMetrics ==
    /\ repo = [i \in Ids |-> 0]
    /\ \E n \in {0, HistoryMax - 1} :
          cache = IF n = 0 THEN EmptyCache
                  ELSE CacheSet(EmptyCache, HistoryKey, Earlier(n), HistoryTTL)
    /\ info = Info(0, 0, 100)
    /\ seq = 0
    /\ result = [op |-> "none"]
    /\ calls = NoCalls

NextMetrics ==
    \/ \E failing \in MetricsFaults, storing \in StoreFaults : CollectMetrics(failing, storing)
    \/ \E failing \in MetricsFaults, storing \in StoreFaults, reading \in ReportFaults :
          Report(failing, storing, reading)
    \/ RedisActivity
    \/ Tick(LongStep)

SpecMetrics == InitMetrics /\ [][NextMetrics]_vars

\* the listing path on a backend that also holds a metrics history
InitFrame ==
    /\ repo = [i \in Ids |-> 0]
    /\ cache = CacheSet(EmptyCache, HistoryKey, Earlier(2), HistoryTTL)
    /\ info = Info(9, 1, 150)
    /\ seq = 0
    /\ result = [op |-> "none"]
    /\ calls = NoCalls

NextFrame ==
    \/ \E id \in Ids, rev \in Revs : Save(id, rev, "none")
    \/ \E id \in Ids : Delete(id, "none")
    \/ \E failing \in GetFaults : GetAllProperties(failing)
    \/ PropertyList
    \/ CollectMetrics("none", "none")

SpecFrame == InitFrame /\ [][NextFrame]_vars

\* one collection for every pair of counters up to MaxHits and MaxMisses
InitRatio ==
    /\ repo = [i \in Ids |-> 0]
    /\ cache = EmptyCache
    /\ \E hits \in 0..MaxHits, misses \in 0..MaxMisses : info = Info(hits, misses, 100)
    /\ seq = MaxCollects - 1
    /\ result = [op |-> "none"]
    /\ calls = NoCalls

NextRatio == CollectMetrics("none", "none")

SpecRatio == InitRatio /\ [][NextRatio]_vars

(***************************************************************************)
(* Concurrent calls on the collection key.  Two get_all_properties() calls *)
(* and one write run step by step: cache.get, the repository fetch and     *)
(* cache.set of a reader, the row change, cache.delete and                 *)
(* cache.delete_pattern of the writer are separate round trips, and        *)
(* nothing locks the key.  calls.applied lists, in order, who changed the  *)
(* key: a reader's number for its cache.set, 0 for the handler's delete.   *)
(***************************************************************************)
Readers == 1..2

Handler == 0

FreshReader ==
    [pc |-> "start", hit |-> FALSE, fetches |-> 0, epoch |-> 0,
     fetched |-> <<>>, returned |-> <<>>]

FreshWriter == [pc |-> "start", error |-> "none", raised |-> FALSE]

\* a store that keeps an entry that is already there
store_if_absent(c, fetched) ==
    IF Present(c, AllPropertiesKey) THEN c
    ELSE CacheSet(c, AllPropertiesKey, fetched, PropertiesTTL)

\* cache.set('all_properties', properties, 3600) applied to the backend
store_fetched(c, fetched) == CacheSet(c, AllPropertiesKey, fetched, PropertiesTTL)

\* a handler delete that leaves the key in place
delete_nothing(c) == c

\* cache.delete('all_properties') applied to the backend
delete_collection(c) == CacheDelete(c, AllPropertiesKey)

\* properties = cache.get('all_properties'); a hit returns at once
ReaderLookup(r) ==
    /\ calls.readers[r].pc = "start"
    /\ calls' = [calls EXCEPT !.readers[r] =
                    IF Present(cache, AllPropertiesKey)
                    THEN [@ EXCEPT !.pc = "done", !.hit = TRUE,
                                   !.returned = CacheGet(cache, AllPropertiesKey, <<>>)]
                    ELSE [@ EXCEPT !.pc = "miss"]]
    /\ UNCHANGED <<repo, cache, info, seq, result>>

\* the query of Property.objects.all() runs; epoch tells whether the row
\* change of the write was already made
ReaderFetch(r) ==
    /\ calls.readers[r].pc = "miss"
    /\ calls' = [calls EXCEPT !.readers[r] =
                    [@ EXCEPT !.pc = "fetched",
                              !.fetches = @ + 1,
                              !.fetched = FetchAll(repo),
                              !.epoch = IF calls.writer.pc = "start" THEN 0 ELSE 1]]
    /\ UNCHANGED <<repo, cache, info, seq, result>>

\* cache.set reaches the backend; the call returns what it fetched
ReaderStore(r) ==
    /\ calls.readers[r].pc = "fetched"
    /\ cache' = store_fetched(cache, calls.readers[r].fetched)
    /\ calls' = [calls EXCEPT !.readers[r] =
                    [@ EXCEPT !.pc = "done", !.returned = calls.readers[r].fetched],
                              !.applied = Append(@, r)]
    /\ UNCHANGED <<repo, info, seq, result>>

\* the row is written (rev 0: deleted); the receiver has not run yet
WriterCommit(id, rev) ==
    /\ calls.writer.pc = "start"
    /\ rev = 0 => repo[id] # 0
    /\ repo' = [repo EXCEPT ![id] = rev]
    /\ calls' = [calls EXCEPT !.writer.pc = "committed"]
    /\ UNCHANGED <<cache, info, seq, result>>

\* the receiver's cache.delete('all_properties')
HandlerDeleteKey(failing) ==
    /\ calls.writer.pc = "committed"
    /\ IF failing = "cache_delete"
       THEN /\ calls' = [calls EXCEPT !.writer =
                            [pc |-> "done", error |-> failing, raised |-> TRUE]]
            /\ UNCHANGED cache
       ELSE /\ cache' = delete_collection(cache)
            /\ calls' = [calls EXCEPT !.writer.pc = "deleted",
                                      !.applied = Append(@, Handler)]
    /\ UNCHANGED <<repo, info, seq, result>>

\* the receiver's cache.delete_pattern('views.decorators.cache.*')
HandlerDeletePattern(failing) ==
    /\ calls.writer.pc = "deleted"
    /\ IF failing = "delete_pattern"
       THEN /\ calls' = [calls EXCEPT !.writer =
                            [pc |-> "done", error |-> failing, raised |-> TRUE]]
            /\ UNCHANGED cache
       ELSE /\ cache' = DeletePattern(cache, ViewPattern)
            /\ calls' = [calls EXCEPT !.writer.pc = "done"]
    /\ UNCHANGED <<repo, info, seq, result>>

\* row 1 exists; the key is absent or holds the collection of that row
InitRace ==
    /\ repo = [i \in Ids |-> IF i = 1 THEN 1 ELSE 0]
    /\ \E populated \in BOOLEAN :
          cache = IF populated
                  THEN CacheSet(EmptyCache, AllPropertiesKey, FetchAll(repo), PropertiesTTL)
                  ELSE EmptyCache
    /\ info = Info(0, 0, 100)
    /\ seq = 0
    /\ result = [op |-> "none"]
    /\ calls = [kind |-> "race",
                readers |-> [r \in Readers |-> FreshReader],
                writer |-> FreshWriter,
                applied |-> <<>>]

NextRace ==
    \/ \E r \in Readers : ReaderLookup(r)
    \/ \E r \in Readers : ReaderFetch(r)
    \/ \E r \in Readers : ReaderStore(r)
    \/ \E id \in Ids, rev \in Revs \cup {0} : WriterCommit(id, rev)
    \/ \E failing \in {"none", "cache_delete"} : HandlerDeleteKey(failing)
    \/ \E failing \in {"none", "delete_pattern"} : HandlerDeletePattern(failing)

SpecRace == InitRace /\ [][NextRace]_vars

(***************************************************************************)
(* Concurrent collections.  Two get_redis_cache_metrics() calls run step   *)
(* by step: building the metrics from INFO, cache.get of the history and   *)
(* cache.set of the extended history are separate round trips, and nothing *)
(* locks the history key.  calls.applied lists the collectors in the order *)
(* of their cache.set; calls.before is the length of the history at start. *)
(***************************************************************************)
Collectors == 1..2

FreshCollector == [pc |-> "start", metrics |-> [timestamp |-> 0], loaded |-> <<>>]

\* history = cache.get(history_key, [])
load_history(c) == CacheGet(c, HistoryKey, <<>>)

\* a store that writes back what it loaded
persist_loaded(c, loaded, metrics) ==
    CacheSet(c, HistoryKey, LastEntries(loaded), HistoryTTL)

\* history.append(metrics), the cut to 100 and cache.set(history_key, ...)
persist_history(c, loaded, metrics) ==
    CacheSet(c, HistoryKey, LastEntries(Append(loaded, metrics)), HistoryTTL)

\* INFO and the key listing succeed; the metrics dictionary is built
CollectorBuild(p) ==
    /\ calls.collectors[p].pc = "start"
    /\ \E hit_ratio \in HitRatios(info.hits, info.misses),
          miss_ratio \in MissRatios(info.hits, info.misses) :
          calls' = [calls EXCEPT !.collectors[p] =
                       [@ EXCEPT !.pc = "built",
                                 !.metrics = Metrics(info, cache, seq + 1,
                                                     hit_ratio, miss_ratio)]]
    /\ seq' = seq + 1
    /\ UNCHANGED <<repo, cache, info, result>>

\* store_metrics_history loads the history
CollectorLoad(p) ==
    /\ calls.collectors[p].pc = "built"
    /\ calls' = [calls EXCEPT !.collectors[p] =
                    [@ EXCEPT !.pc = "loaded", !.loaded = load_history(cache)]]
    /\ UNCHANGED <<repo, cache, info, seq, result>>

\* store_metrics_history stores the extended history; the call returns
CollectorPersist(p) ==
    /\ calls.collectors[p].pc = "loaded"
    /\ cache' = persist_history(cache, calls.collectors[p].loaded,
                                calls.collectors[p].metrics)
    /\ calls' = [calls EXCEPT !.collectors[p].pc = "done",
                              !.applied = Append(@, p)]
    /\ UNCHANGED <<repo, info, seq, result>>

\* a backend with a history of 0, 1 or 2 entries
InitCollectRace ==
    /\ repo = [i \in Ids |-> 0]
    /\ info \in InfoSamples
    /\ seq = 0
    /\ result = [op |-> "none"]
    /\ \E n \in 0..2 :
          /\ cache = IF n = 0 THEN EmptyCache
                     ELSE CacheSet(EmptyCache, HistoryKey, Earlier(n), HistoryTTL)
          /\ calls = [kind |-> "collect",
                      collectors |-> [p \in Collectors |-> FreshCollector],
                      applied |-> <<>>,
                      before |-> n]

NextCollectRace ==
    \/ \E p \in Collectors : CollectorBuild(p)
    \/ \E p \in Collectors : CollectorLoad(p)
    \/ \E p \in Collectors : CollectorPersist(p)

SpecCollectRace == InitCollectRace /\ [][NextCollectRace]_vars

(***************************************************************************)
(* Properties.                                                             *)
(***************************************************************************)
IsWrite(res) == res.op \in {"save", "delete"}

\* the handler of the write got past cache.delete('all_properties')
Invalidated(res) == IsWrite(res) /\ res.error # "cache_delete"

History(c) == CacheGet(c, HistoryKey, <<>>)

\* C1: a get_all_properties() call right after a write whose handler deleted
\* the key is a miss that returns and caches the repository's contents as
\* they are after the write; after such a handler the key is absent.
NoStaleAfterInvalidate ==
    /\ [](Invalidated(result) => ~Present(cache, AllPropertiesKey))
    /\ [][(Invalidated(result) /\ result'.op = "get")
            => /\ ~result'.hit
               /\ ~result'.raised
                    => /\ result'.fetches = 1
                       /\ result'.value = FetchAll(repo)
                       /\ CacheGet(cache', AllPropertiesKey, <<>>) = FetchAll(repo)]_vars

\* a get right after an invalidating write returned a non-empty collection
FreshAfterWrite ==
    /\ result.op = "get"
    /\ result.after \in {"save", "delete"}
    /\ ~result.raised
    /\ ~result.hit
    /\ result.value = FetchAll(repo)
    /\ result.value # <<>>

\* C2: the post_save and post_delete handlers never raise to the caller of
\* the write.
HandlersNeverRaise == IsWrite(result) => ~result.raised

IsMetrics(res) == res.op = "metrics"

Failed(snapshot) == "error" \in DOMAIN snapshot

\* C3: a collection whose backend introspection fails returns, without
\* raising, a snapshot with an error, hits = misses = hit_ratio = 0 and no
\* analysis or warning, and leaves the cache, the history included, as it was.
ErrorSnapshotNotStored ==
    [][(IsMetrics(result') /\ seq' = seq + 1 /\ result'.failing # "none")
         => /\ ~result'.raised
            /\ Failed(result'.value)
            /\ result'.value.cache_stats.hits = 0
            /\ result'.value.cache_stats.misses = 0
            /\ result'.value.cache_stats.hit_ratio = 0
            /\ "analysis" \notin DOMAIN result'.value
            /\ "warning" \notin DOMAIN result'.value
            /\ cache' = cache]_vars

\* a failed collection on a backend that holds a history
FailedWithHistory ==
    /\ IsMetrics(result)
    /\ result.failing # "none"
    /\ Failed(result.value)
    /\ Len(History(cache)) > 0

\* C4 as claimed: the classification is boundary-exact in the hit_ratio the
\* snapshot carries: 90.00 is "good", 70.00 "moderate", 50.00 the lowest
\* band, and each higher band needs a carried hit_ratio above its threshold.
BoundaryExactOnCarriedRatio ==
    (IsMetrics(result) /\ ~Failed(result.value))
        => LET carried == result.value.cache_stats.hit_ratio
               analysis == result.value.analysis
           IN  /\ analysis \in {Excellent, Good, Moderate, Low}
               /\ carried = 9000 => analysis = Good
               /\ carried = 7000 => analysis = Moderate
               /\ carried = 5000 => analysis = Low
               /\ analysis = Excellent => carried > 9000
               /\ analysis = Good => carried > 7000
               /\ analysis = Moderate => carried > 5000

\* C4 as amended: exactly one classification is attached and it is
\* boundary-exact in the unrounded ratio 100 * hits / total_requests:
\* "excellent" iff the ratio is > 90, "good" iff it is > 70 and <= 90,
\* "moderate" iff it is > 50 and <= 70, the lowest band otherwise; a carried
\* hit_ratio above a threshold always has the band above it.
BoundaryExactOnRatio ==
    (IsMetrics(result) /\ ~Failed(result.value))
        => LET hits == result.value.cache_stats.hits
               total == result.value.cache_stats.total_requests
               carried == result.value.cache_stats.hit_ratio
               analysis == result.value.analysis
           IN  /\ analysis \in {Excellent, Good, Moderate, Low}
               /\ analysis = Excellent <=> 100 * hits > 90 * total
               /\ analysis = Good <=> (100 * hits > 70 * total /\ 100 * hits <= 90 * total)
               /\ analysis = Moderate <=> (100 * hits > 50 * total /\ 100 * hits <= 70 * total)
               /\ analysis = Low <=> 100 * hits <= 50 * total
               /\ carried > 9000 => analysis = Excellent
               /\ (carried > 7000 /\ carried < 9000) => analysis = Good
               /\ (carried > 5000 /\ carried < 7000) => analysis = Moderate
               /\ carried < 5000 => analysis = Low

\* a snapshot whose ratio is exactly 90 and is classified "good"
ExactlyNinetyIsGood ==
    /\ IsMetrics(result)
    /\ ~Failed(result.value)
    /\ result.value.cache_stats.total_requests > 0
    /\ 100 * result.value.cache_stats.hits = 90 * result.value.cache_stats.total_requests
    /\ result.value.cache_stats.hit_ratio = 9000
    /\ result.value.analysis = Good

\* C5: a snapshot without error has hits + misses = total_requests; with
\* requests, 0 <= hit_ratio <= 100 and hit_ratio + miss_ratio is 100 to
\* within one hundredth; without requests both ratios are 0.
RatiosAddUp ==
    (IsMetrics(result) /\ ~Failed(result.value))
        => LET stats == result.value.cache_stats
               sum == stats.hit_ratio + stats.miss_ratio
           IN  /\ stats.hits + stats.misses = stats.total_requests
               /\ stats.total_requests > 0
                    => /\ 0 <= stats.hit_ratio
                       /\ stats.hit_ratio <= 10000
                       /\ sum >= 9999
                       /\ sum <= 10001
               /\ stats.total_requests = 0
                    => /\ stats.hit_ratio = 0
                       /\ stats.miss_ratio = 0

\* a snapshot whose two ratios were both rounded
BothRatiosRounded ==
    /\ IsMetrics(result)
    /\ ~Failed(result.value)
    /\ result.value.cache_stats.total_requests > 0
    /\ (10000 * result.value.cache_stats.hits) % result.value.cache_stats.total_requests # 0
    /\ result.value.cache_stats.hit_ratio + result.value.cache_stats.miss_ratio = 10000

\* C6: the history under 'cache_metrics_history' never has more than 100
\* entries.
HistoryBounded == Len(History(cache)) <= HistoryMax

\* a collection stored its snapshot in a full history: the oldest entry the
\* backend started with is gone
HistoryFullAndShifted ==
    /\ IsMetrics(result)
    /\ ~Failed(result.value)
    /\ result.storing = "none"
    /\ Len(History(cache)) = HistoryMax
    /\ History(cache)[1].timestamp > 2 - HistoryMax

\* C7: after a successful collection whose history store did not fail, the
\* history is the previous one (empty if absent or expired) with the
\* returned snapshot at the end, cut from the front to its last 100
\* entries, and is kept for 24 hours from now.
SnapshotAppended ==
    [][(IsMetrics(result') /\ seq' = seq + 1 /\ result'.failing = "none"
            /\ result'.storing = "none")
         => LET old == History(cache)
                new == History(cache')
                dropped == Len(old) + 1 - Len(new)
            IN  /\ cache'[HistoryKey] = Entry(new, HistoryTTL)
                /\ Len(new) = IF Len(old) < HistoryMax THEN Len(old) + 1 ELSE HistoryMax
                /\ new[Len(new)] = result'.value
                /\ \A i \in 1..(Len(new) - 1) : new[i] = old[i + dropped]
                /\ \A k \in Keys \ {HistoryKey} : cache'[k] = cache[k]]_vars

\* a returned snapshot is the newest entry of a history that also holds
\* older entries, the oldest of them dropped
NewestOfMany ==
    /\ IsMetrics(result)
    /\ ~Failed(result.value)
    /\ result.storing = "none"
    /\ Len(History(cache)) = HistoryMax
    /\ History(cache)[HistoryMax] = result.value
    /\ History(cache)[1].timestamp = 3 - HistoryMax
    /\ History(cache)[HistoryMax - 2].timestamp = 0
    /\ History(cache)[HistoryMax - 1].timestamp = 1

\* C8: delivering the same event to the handler a second time in a row,
\* on a backend that serves cache.delete, has the effect of delivering it
\* once: the key is absent after the first and after the second delivery,
\* the second changes nothing in the cache and ends as the first did.
InvalidationIdempotent ==
    [][(IsWrite(result') /\ result'.run >= 2 /\ Invalidated(result)
            /\ result'.error = result.error)
         => /\ ~Present(cache, AllPropertiesKey)
            /\ ~Present(cache', AllPropertiesKey)
            /\ cache' = cache
            /\ repo' = repo
            /\ result'.raised = result.raised]_vars

\* the handler ran twice in a row for one event and returned
DeliveredTwice ==
    /\ result.op = "save"
    /\ result.run = 2
    /\ result.error = "none"
    /\ ~result.raised
    /\ ~Present(cache, AllPropertiesKey)

\* C9: a get_all_properties() call that finds the key absent or expired
\* and returns has called the repository once, stored exactly the fetched
\* sequence under the key with a time-to-live of 3600 seconds, touched no
\* other key and returned that sequence; the entry then is present while
\* it is less than 3600 seconds old and absent afterwards.
MissFetchesAndStores ==
    /\ [][(result'.op = "get" /\ ~Present(cache, AllPropertiesKey) /\ ~result'.raised)
            => /\ ~result'.hit
               /\ result'.fetches = 1
               /\ result'.value = FetchAll(repo)
               /\ cache'[AllPropertiesKey] =
                    [present |-> TRUE, value |-> FetchAll(repo), ttl |-> 3600, age |-> 0]
               /\ \A k \in Keys \ {AllPropertiesKey} : cache'[k] = cache[k]]_vars
    /\ [][(result'.op = "tick" /\ Present(cache, AllPropertiesKey))
            => (Present(cache', AllPropertiesKey)
                  <=> cache[AllPropertiesKey].age + result'.elapsed < 3600)]_vars
    /\ [](Present(cache, AllPropertiesKey)
            => /\ cache[AllPropertiesKey].ttl = 3600
               /\ cache[AllPropertiesKey].age < 3600)

\* a miss stored and returned a non-empty collection
MissStored ==
    /\ result.op = "get"
    /\ ~result.hit
    /\ ~result.raised
    /\ result.value # <<>>
    /\ result.value = FetchAll(repo)
    /\ cache[AllPropertiesKey] = Entry(result.value, PropertiesTTL)

\* C10: a get_all_properties() call that finds the key present returns the
\* cached sequence as it is, without calling the repository and without
\* changing the cache, whatever the repository holds by now.
HitReturnsCached ==
    [][(result'.op = "get" /\ Present(cache, AllPropertiesKey)
            /\ ~(result'.raised /\ result'.error = "cache_get"))
         => /\ result'.hit
            /\ ~result'.raised
            /\ result'.fetches = 0
            /\ result'.value = cache[AllPropertiesKey].value
            /\ cache' = cache]_vars

\* a hit returned a sequence the repository no longer holds, from an entry
\* that has aged
StaleHit ==
    /\ result.op = "get"
    /\ result.hit
    /\ result.value # FetchAll(repo)
    /\ Present(cache, AllPropertiesKey)
    /\ cache[AllPropertiesKey].value = result.value
    /\ cache[AllPropertiesKey].age > 0

IsReport(res) == res.op = "report"

\* C11: the report has a trend section exactly when the history it reads,
\* after the snapshot was collected and stored, has at least 2 entries; the
\* trend compares the hit ratio of history[0] with the one just collected,
\* "improving" if the new one is strictly greater, "declining" otherwise.
TrendFromOldest ==
    [][(IsReport(result') /\ seq' = seq + 1 /\ result'.text.kind = "report")
         => LET history == History(cache')
                section == result'.text.trend
            IN  /\ section.trend # "none" <=> Len(history) >= 2
                /\ section.trend # "none"
                     => /\ section.old_ratio = history[1].cache_stats.hit_ratio
                        /\ section.new_ratio = result'.value.cache_stats.hit_ratio
                        /\ section.trend = "improving"
                             <=> section.new_ratio > section.old_ratio
                        /\ section.trend = "declining"
                             <=> section.new_ratio <= section.old_ratio]_vars

\* a report whose new ratio equals the oldest one, over a history whose
\* oldest and previous entries differ
EqualRatiosDecline ==
    /\ IsReport(result)
    /\ result.text.kind = "report"
    /\ result.text.trend.trend = "declining"
    /\ result.text.trend.new_ratio = result.text.trend.old_ratio
    /\ Len(History(cache)) >= 3
    /\ History(cache)[Len(History(cache)) - 1].cache_stats.hit_ratio
         # History(cache)[1].cache_stats.hit_ratio

\* C12: when the snapshot collected by the report carries an error, the
\* report is the error message alone, the history key is neither read nor
\* written and the cache is as it was.
ErrorReportOnly ==
    [][(IsReport(result') /\ seq' = seq + 1 /\ Failed(result'.value))
         => /\ ~result'.raised
            /\ result'.text = [kind |-> "error", message |-> result'.value.error]
            /\ ~result'.read
            /\ cache' = cache]_vars

\* an error report on a backend that holds a history
ErrorReportWithHistory ==
    /\ IsReport(result)
    /\ Failed(result.value)
    /\ result.text.kind = "error"
    /\ Len(History(cache)) > 0

\* C13: a failing cache.get or cache.set of the history inside a collection
\* is swallowed: the collection returns, without raising, the snapshot it
\* returns when the store succeeds, with no error field.
StoreFailureSwallowed ==
    [][(IsMetrics(result') /\ seq' = seq + 1 /\ result'.storing # "none")
         => /\ ~result'.raised
            /\ ~Failed(result'.value)
            /\ \E hit_ratio \in HitRatios(info.hits, info.misses),
                  miss_ratio \in MissRatios(info.hits, info.misses) :
                  result'.value = Metrics(info, cache, seq', hit_ratio, miss_ratio)
            /\ result'.value.analysis \in {Excellent, Good, Moderate, Low}
            /\ ("warning" \in DOMAIN result'.value)
                 <=> info.fragmentation > FragmentationLimit
            /\ cache' = cache]_vars

\* a collection whose history store failed returned a snapshot with a warning
StoreFailedSnapshotReturned ==
    /\ IsMetrics(result)
    /\ result.storing # "none"
    /\ ~Failed(result.value)
    /\ "warning" \in DOMAIN result.value
    /\ result.value.timestamp = seq

\* C14: the metrics and report operations never raise to their caller.
MetricsAndReportNeverRaise ==
    (IsMetrics(result) \/ IsReport(result)) => ~result.raised

\* C15: when the repository fails during a miss, get_all_properties()
\* raises, returns no collection and leaves the key absent and the cache as
\* it was.
RepositoryFailurePropagates ==
    [][(result'.op = "get" /\ result'.error = "repository")
         => /\ result'.raised
            /\ ~result'.hit
            /\ result'.fetches = 1
            /\ result'.value = <<>>
            /\ ~Present(cache, AllPropertiesKey)
            /\ ~Present(cache', AllPropertiesKey)
            /\ cache' = cache]_vars

\* the repository failed on a miss while it held rows
RepositoryFailedOnMiss ==
    /\ result.op = "get"
    /\ result.error = "repository"
    /\ result.raised
    /\ FetchAll(repo) # <<>>
    /\ ~Present(cache, AllPropertiesKey)

\* C16: a get_all_properties() call leaves every cache key other than
\* 'all_properties' with the presence, value and expiry it had.
GetTouchesOneKey ==
    [][(result'.op = "get")
         => \A k \in Keys \ {AllPropertiesKey} : cache'[k] = cache[k]]_vars

\* a miss stored the collection while the history and a page were cached
MissBesideOtherKeys ==
    /\ result.op = "get"
    /\ ~result.hit
    /\ ~result.raised
    /\ Present(cache, AllPropertiesKey)
    /\ Present(cache, PageKey)
    /\ Len(History(cache)) >= 2

\* C20: a miss is the absence of the key, not the emptiness of its value:
\* an empty collection fetched on a miss is stored, and a call that finds
\* it cached is a hit that returns it without calling the repository.
EmptyCollectionIsCached ==
    /\ [][(result'.op = "get" /\ ~Present(cache, AllPropertiesKey) /\ ~result'.raised
             /\ FetchAll(repo) = <<>>)
            => /\ cache'[AllPropertiesKey] = Entry(<<>>, PropertiesTTL)
               /\ result'.value = <<>>]_vars
    /\ [][(result'.op = "get" /\ Present(cache, AllPropertiesKey)
             /\ cache[AllPropertiesKey].value = <<>>
             /\ ~(result'.raised /\ result'.error = "cache_get"))
            => /\ result'.hit
               /\ result'.fetches = 0
               /\ result'.value = <<>>
               /\ cache' = cache]_vars

\* a hit returned the cached empty collection
EmptyHit ==
    /\ result.op = "get"
    /\ result.hit
    /\ result.fetches = 0
    /\ result.value = <<>>
    /\ Present(cache, AllPropertiesKey)
    /\ cache[AllPropertiesKey].value = <<>>

ReadersDone == \A r \in Readers : calls.readers[r].pc = "done"

RaceOver == ReadersDone /\ calls.writer.pc = "done"

LastApplied == calls.applied[Len(calls.applied)]

\* C17: when two concurrent get_all_properties() calls both saw a miss,
\* each has called the repository once and written the key, each has
\* returned the sequence it fetched itself, and the key, if a reader wrote
\* it last, holds what that reader fetched.
LastWriteWins ==
    (ReadersDone /\ \A r \in Readers : ~calls.readers[r].hit)
        => /\ \A r \in Readers :
                /\ calls.readers[r].fetches = 1
                /\ calls.readers[r].returned = calls.readers[r].fetched
                /\ \E i \in 1..Len(calls.applied) : calls.applied[i] = r
           /\ LastApplied \in Readers
                => cache[AllPropertiesKey] =
                     Entry(calls.readers[LastApplied].fetched, PropertiesTTL)

\* both readers missed and fetched different collections; the key holds
\* the one stored last
TwoMissesTwoCollections ==
    /\ ReadersDone
    /\ \A r \in Readers : ~calls.readers[r].hit
    /\ calls.readers[1].returned # calls.readers[2].returned
    /\ LastApplied \in Readers
    /\ cache[AllPropertiesKey].value = calls.readers[LastApplied].returned

\* C18 as claimed: once a get_all_properties() call, the concurrent write
\* and its handler have all completed, the key is absent or holds the
\* repository's contents after the write.
NoStaleAfterRace ==
    RaceOver
        => \/ ~Present(cache, AllPropertiesKey)
           \/ cache[AllPropertiesKey].value = FetchAll(repo)

\* C18 as amended: once they have all completed, the key is absent, or
\* holds the contents after the write, or holds contents from before the
\* write; the latter only when the handler's cache.delete failed, or when
\* the key was written last by a reader whose repository fetch came before
\* the row change.
StaleOnlyByLateStore ==
    (RaceOver /\ Present(cache, AllPropertiesKey)
        /\ cache[AllPropertiesKey].value # FetchAll(repo))
        => \/ calls.writer.error = "cache_delete"
           \/ /\ calls.applied # <<>>
              /\ LastApplied \in Readers
              /\ calls.readers[LastApplied].epoch = 0
              /\ cache[AllPropertiesKey].value = calls.readers[LastApplied].fetched

\* the handler deleted the key and returned, and the key holds contents
\* from before the write
StaleAfterCompletedWrite ==
    /\ RaceOver
    /\ calls.writer.error = "none"
    /\ Present(cache, AllPropertiesKey)
    /\ cache[AllPropertiesKey].value # FetchAll(repo)
    /\ LastApplied \in Readers
    /\ calls.readers[LastApplied].epoch = 0

CollectorsDone == \A p \in Collectors : calls.collectors[p].pc = "done"

\* C19 as claimed: once two concurrent successful collections have
\* returned, the history has grown by exactly 2.
BothSnapshotsStored ==
    CollectorsDone => Len(History(cache)) = calls.before + 2

\* C19 as amended: once both have returned, the history is what the
\* collector that stored last had loaded, plus its own snapshot at the end;
\* it has grown by 2 when that collector loaded after the other had stored,
\* and by 1, without the other's snapshot, when it loaded before.
LastStoreDecidesHistory ==
    CollectorsDone
        => LET last == LastApplied
               first == calls.applied[1]
               history == History(cache)
               has(m) == \E i \in 1..Len(history) : history[i] = m
           IN  /\ Len(calls.applied) = 2
               /\ history = Append(calls.collectors[last].loaded,
                                   calls.collectors[last].metrics)
               /\ history[Len(history)] = calls.collectors[last].metrics
               /\ Len(history) \in {calls.before + 1, calls.before + 2}
               /\ Len(history) = calls.before + 2
                    <=> Len(calls.collectors[last].loaded) = calls.before + 1
               /\ has(calls.collectors[first].metrics)
                    <=> Len(calls.collectors[last].loaded) = calls.before + 1

\* both collections returned and one snapshot was lost
LostSnapshot ==
    /\ CollectorsDone
    /\ Len(History(cache)) = calls.before + 1
    /\ calls.before > 0
    /\ History(cache)[Len(History(cache))] = calls.collectors[LastApplied].metrics

====
